---- MODULE Spec2Model ----
(***************************************************************************)
(* Model of browser_py/server/app.py: the chat handlers (POST /api/chat    *)
(* and /ws), the worker threads of the default executor running            *)
(* agent.chat, the _broadcast fan-out from a worker thread into the event  *)
(* loop, the _ws_clients registry, and _run_scheduled_task.                *)
(*                                                                         *)
(* Lanes.  The event loop runs the handlers and the callbacks queued with  *)
(* call_soon_threadsafe, one at a time, in FIFO order (loopQ).  Every      *)
(* agent.chat call runs on its own thread of the default                   *)
(* ThreadPoolExecutor; a thread's steps interleave freely with the loop's  *)
(* and with other threads'.                                                *)
(***************************************************************************)
EXTENDS Integers, Sequences, FiniteSets, TLC

\* ---------------------------------------------------------------- bounds
NConns    == 2      \* websocket connections that may ever be opened
MaxTurns  == 2      \* chat requests the server may ever receive
MaxTools  == 2      \* tool calls the agent may ever make, over all Turns
MaxInputs == 4      \* things the clients may ever do (connect, send, close)

MaxFires  == 2      \* times the scheduler may ever fire a job
MaxClock  == 2      \* seconds the clock may advance
NJobs     == 2      \* jobs in the job store

MaxEvents == 2      \* messages built by _on_tool_call and _on_message
MaxDepth  == 2      \* components of a path argument
NLists    == 2      \* distinct lists a provider's endpoint can answer with
MaxMono   == 1800   \* the last value of time.monotonic() looked at, seconds

\* The cap of _on_tool_call, result[:2000] (app.py:52), in characters.
ResultCap == 2000

\* models.py line 20, in seconds.
CACHE_TTL == 600

\* APScheduler's default misfire_grace_time, in seconds: BackgroundScheduler()
\* is built with no options (app.py:200) and add_job passes none.
MisfireGrace == 1

Conns == 1..NConns
Turns == 1..MaxTurns
Http  == 0          \* initiator id of a POST /api/chat request

VARIABLES
    loopRef,     \* module global _loop: "None" or "loop" (app.py:75, 279)
    agentMade,   \* number of interactive Agent constructions by _get_agent
    messages,    \* the interactive Agent's message list
    ws_clients,  \* _ws_clients, a Python list of connections
    hpc,         \* per connection: where its websocket_endpoint coroutine is:
                 \* "new", "recv" (line 156), "await" (line 166), "unregister"
                 \* (line 182), "done" (returned), "crashed_*" (an exception
                 \* left the coroutine)
    copen,       \* per connection: the socket can still be written
    rec,         \* per connection: the events written to its socket, in order
    turn,        \* per chat request: init (who sent it), st (the agent.chat
                 \* call), tools (tool calls made), pc/idx/dead (the running
                 \* _broadcast), reply (what the initiator was told), bErr
                 \* (_broadcast raised), regs (the registry when it arrived),
                 \* cb (the type of the message the last callback built)
    nextTurn,    \* chat requests received so far, plus one
    loopQ,       \* the event loop's FIFO of callbacks queued from threads
    failedSends, \* connections on which a broadcast's ws.send_text raised
    inputs,      \* things the clients have done so far
    cleared,     \* a reset has been applied and no chat request has arrived
                 \* since
    hist         \* the last GET /api/history response: seen (there was
                 \* one), empty (its message list was empty), cleared (it
                 \* followed a reset)

VARIABLES
    fire,        \* per scheduler fire: where _run_scheduled_task is, and
                 \* which log records it has written
    now,         \* int(time.time())
    files,       \* the files of <workspace>/.cron_logs
    jobs,        \* the job store read by _load_jobs, by job id
    spc,         \* _start_scheduler: "init" (not called yet), "started"
                 \* (line 239 reached), "failed" (an exception left it),
                 \* "disabled" (APScheduler is not installed)
    next,        \* per job: the next run time of its timer, NoTimer if none
    loadedAt     \* the second at which _start_scheduler ran

VARIABLES
    sent,        \* the messages _on_tool_call and _on_message have built and
                 \* passed to _broadcast, in order
    args,        \* the arguments of a FilesTool call: action, path,
                 \* destination
    disk,        \* the file system: the locations that exist
    resolved,    \* what FilesTool._resolve(path) did: applied, ok (it
                 \* returned), loc (the location returned)
    out,         \* what FilesTool.execute(**args) did: applied, raised, text
    cache,       \* models.py _cache, by provider: has (the key is present),
                 \* ts (the time.monotonic() stored), list (the list stored)
    mono,        \* time.monotonic(), in seconds
    ret          \* what the last fetch_models call did
                 \* (the kind of text returned), before (the file system
                 \* at the call)

schedVars == << fire, now, files, jobs, spc, next, loadedAt >>

\* The state of the parts checked on their own, apart from the lanes.
filesVars == << args, disk, resolved, out >>

modelsVars == << cache, mono, ret >>

unitVars == << sent, filesVars, modelsVars >>

serverVars == << loopRef, agentMade, messages, ws_clients, hpc, copen, rec,
                 turn, nextTurn, loopQ, failedSends, inputs, cleared, hist >>

\* ------------------------------------------------------------- helpers
Range(s) == { s[i] : i \in 1..Len(s) }

\* list.remove(x): drops the first occurrence of x (x is present).
RECURSIVE RemoveFirst(_, _)
RemoveFirst(s, x) ==
    IF s = << >> THEN << >>
    ELSE IF Head(s) = x THEN Tail(s)
    ELSE << Head(s) >> \o RemoveFirst(Tail(s), x)

Event(type, t, k) == [type |-> type, turn |-> t, k |-> k]

NoTurn == [init |-> Http, st |-> "unused", tools |-> 0, pc |-> "chat",
           idx |-> 0, dead |-> << >>, reply |-> "none", bErr |-> FALSE,
           regs |-> {}, cb |-> "tool_call"]

Fires == 1..MaxFires
JobIds == 1..NJobs
NoFire == [pc |-> "idle", wrote |-> {}, job |-> 0, msgs |-> 0]
NoTimer == -1

\* A job of the store: schedule_type, the paused flag, the state of its
\* "cron" expression ("ok": five fields the trigger accepts; "fields": a
\* field count other than five; "missing": no "cron" key; "rejected": five
\* fields that CronTrigger refuses) and its run_at second.
Job(type, paused, cron, run_at) ==
    [type |-> type, paused |-> paused, cron |-> cron, run_at |-> run_at]

JobKinds ==
    LET unpaused ==
          << Job("interval", FALSE, "na", 0),
             Job("cron", FALSE, "ok", 0),
             Job("cron", FALSE, "fields", 0),
             Job("cron", FALSE, "missing", 0),
             Job("cron", FALSE, "rejected", 0),
             Job("other", FALSE, "na", 0) >>
            \o [r \in 1..(MaxClock + 1) |-> Job("date", FALSE, "na", r - 1)]
    IN  unpaused \o [i \in 1..Len(unpaused) |->
                       [unpaused[i] EXCEPT !.paused = TRUE]]

\* The stores of NJobs jobs; the order of the jobs in the store is fixed by
\* their place in JobKinds (which jobs there are matters, not their ids).
JobStores ==
    { [j \in JobIds |-> JobKinds[ix[j]]] :
        ix \in { x \in [JobIds -> 1..Len(JobKinds)] :
                   \A i, j \in JobIds : i < j => x[i] <= x[j] } }

Ended == {"done", "crashed_json", "crashed_turn", "crashed_send",
          "crashed_remove"}

RECURSIVE Sum(_, _)
Sum(f, S) == IF S = {} THEN 0
             ELSE LET x == CHOOSE y \in S : TRUE IN f[x] + Sum(f, S \ {x})

\* A _get_agent that constructs an Agent at every call.
GetAgentAlways == agentMade + 1

\* _get_agent: constructs the Agent on first use only.
GetAgent == IF agentMade = 0 THEN 1 ELSE agentMade

\* ---------------------------------------------------------------- Init
ServerInit ==
    /\ loopRef \in {"None", "loop"}
    /\ agentMade = 0
    /\ messages = << >>
    /\ ws_clients = << >>
    /\ hpc = [c \in Conns |-> "new"]
    /\ copen = [c \in Conns |-> FALSE]
    /\ rec = [c \in Conns |-> << >>]
    /\ turn = [t \in Turns |-> NoTurn]
    /\ nextTurn = 1
    /\ loopQ = << >>
    /\ failedSends = {}
    /\ inputs = 0
    /\ cleared = FALSE
    /\ hist = [seen |-> FALSE, empty |-> TRUE, cleared |-> FALSE]

SchedInit ==
    /\ fire = [f \in Fires |-> NoFire]
    /\ now = 0
    /\ files = {}
    /\ jobs = [j \in JobIds |-> JobKinds[1]]
    /\ spc = "init"
    /\ next = [j \in JobIds |-> NoTimer]
    /\ loadedAt = 0

\* ------------------------------------------------- the websocket handler
\* websocket_endpoint, lines 152-153: accept, then register.  Connections
\* are opened in the order of their ids (they are interchangeable).
WsAccept(c) ==
    /\ inputs < MaxInputs
    /\ hpc[c] = "new"
    /\ \A d \in Conns : d < c => hpc[d] # "new"
    /\ inputs' = inputs + 1
    /\ hpc' = [hpc EXCEPT ![c] = "recv"]
    /\ copen' = [copen EXCEPT ![c] = TRUE]
    /\ ws_clients' = Append(ws_clients, c)
    /\ UNCHANGED schedVars
    /\ UNCHANGED unitVars
    /\ UNCHANGED << cleared, hist >>
    /\ UNCHANGED << loopRef, agentMade, messages, rec, turn, nextTurn, loopQ,
                    failedSends >>

\* Lines 159-168: a {"type": "chat"} message.  _get_agent, the 'thinking'
\* event to this socket, then agent.chat handed to the default executor.
WsChat(c) ==
    /\ inputs < MaxInputs
    /\ hpc[c] = "recv"
    /\ nextTurn <= MaxTurns
    /\ inputs' = inputs + 1
    /\ agentMade' = GetAgent
    /\ rec' = [rec EXCEPT ![c] = Append(@, Event("thinking", nextTurn, 0))]
    /\ turn' = [turn EXCEPT ![nextTurn] = [NoTurn EXCEPT !.init = c, !.st = "queued",
                                           !.regs = Range(ws_clients)]]
    /\ nextTurn' = nextTurn + 1
    /\ hpc' = [hpc EXCEPT ![c] = "await"]
    /\ UNCHANGED schedVars
    /\ UNCHANGED unitVars
    /\ cleared' = FALSE
    /\ UNCHANGED hist
    /\ UNCHANGED << loopRef, messages, ws_clients, copen, loopQ, failedSends >>

\* A reset acknowledged with the type reset_ack.
WsResetAck(c) ==
    /\ inputs < MaxInputs
    /\ hpc[c] = "recv"
    /\ inputs' = inputs + 1
    /\ agentMade' = GetAgent
    /\ messages' = << >>
    /\ rec' = [rec EXCEPT ![c] = Append(@, Event("reset_ack", 0, 0))]
    /\ UNCHANGED schedVars
    /\ UNCHANGED unitVars
    /\ cleared' = TRUE
    /\ UNCHANGED hist
    /\ UNCHANGED << loopRef, ws_clients, hpc, copen, turn, nextTurn, loopQ,
                    failedSends >>

\* Lines 175-178: a {"type": "reset"} message.  agent.reset() runs on the
\* loop thread, whatever the worker threads are doing; then 'reset_ok'.
WsReset(c) ==
    /\ inputs < MaxInputs
    /\ hpc[c] = "recv"
    /\ inputs' = inputs + 1
    /\ agentMade' = GetAgent
    /\ messages' = << >>
    /\ rec' = [rec EXCEPT ![c] = Append(@, Event("reset_ok", 0, 0))]
    /\ UNCHANGED schedVars
    /\ UNCHANGED unitVars
    /\ cleared' = TRUE
    /\ UNCHANGED hist
    /\ UNCHANGED << loopRef, ws_clients, hpc, copen, turn, nextTurn, loopQ,
                    failedSends >>

\* Line 157: json.loads raises on a text frame that is not JSON (and line 159
\* raises on JSON that is not an object).  Only WebSocketDisconnect is caught
\* (line 180): the coroutine ends, the server closes the socket, and the
\* connection stays in _ws_clients.
WsBadJson(c) ==
    /\ inputs < MaxInputs
    /\ hpc[c] = "recv"
    /\ inputs' = inputs + 1
    /\ hpc' = [hpc EXCEPT ![c] = "crashed_json"]
    /\ copen' = [copen EXCEPT ![c] = FALSE]
    /\ UNCHANGED schedVars
    /\ UNCHANGED unitVars
    /\ UNCHANGED << cleared, hist >>
    /\ UNCHANGED << loopRef, agentMade, messages, ws_clients, rec, turn,
                    nextTurn, loopQ, failedSends >>

\* The except clause, line 181: the membership test.  The removal of line
\* 182 is a separate step: a worker thread may run between the two.
ExceptDisconnect(c) ==
    hpc' = [hpc EXCEPT ![c] = IF c \in Range(ws_clients)
                                THEN "unregister" ELSE "done"]

\* The peer closes while the handler waits at line 156: receive_text raises
\* WebSocketDisconnect.
WsDisconnect(c) ==
    /\ inputs < MaxInputs
    /\ hpc[c] = "recv"
    /\ inputs' = inputs + 1
    /\ copen' = [copen EXCEPT ![c] = FALSE]
    /\ ExceptDisconnect(c)
    /\ UNCHANGED schedVars
    /\ UNCHANGED unitVars
    /\ UNCHANGED << cleared, hist >>
    /\ UNCHANGED << loopRef, agentMade, messages, ws_clients, rec, turn,
                    nextTurn, loopQ, failedSends >>

\* Line 182: _ws_clients.remove(ws).  list.remove raises ValueError when a
\* worker thread has removed ws since the test of line 181.
WsUnregister(c) ==
    /\ hpc[c] = "unregister"
    /\ IF c \in Range(ws_clients)
         THEN /\ ws_clients' = RemoveFirst(ws_clients, c)
              /\ hpc' = [hpc EXCEPT ![c] = "done"]
         ELSE /\ ws_clients' = ws_clients
              /\ hpc' = [hpc EXCEPT ![c] = "crashed_remove"]
    /\ UNCHANGED schedVars
    /\ UNCHANGED unitVars
    /\ UNCHANGED << cleared, hist >>
    /\ UNCHANGED << loopRef, agentMade, messages, copen, rec, turn, nextTurn,
                    loopQ, failedSends, inputs >>

\* A close that cancels the Turn the handler waits for.
ClientCloseCancels(c) ==
    /\ inputs < MaxInputs
    /\ hpc[c] = "await"
    /\ copen[c]
    /\ inputs' = inputs + 1
    /\ copen' = [copen EXCEPT ![c] = FALSE]
    /\ turn' = [t \in Turns |->
                 IF turn[t].init = c /\ turn[t].st \in {"queued", "running"}
                   THEN [turn[t] EXCEPT !.st = "raised", !.pc = "chat"]
                   ELSE turn[t]]
    /\ UNCHANGED schedVars
    /\ UNCHANGED unitVars
    /\ UNCHANGED << loopRef, agentMade, messages, ws_clients, hpc, rec,
                    nextTurn, loopQ, failedSends, cleared, hist >>

\* The peer closes while the handler waits for its Turn at line 166: nothing
\* on the server notices until something is written to the socket.
ClientClose(c) ==
    /\ inputs < MaxInputs
    /\ hpc[c] = "await"
    /\ copen[c]
    /\ inputs' = inputs + 1
    /\ copen' = [copen EXCEPT ![c] = FALSE]
    /\ UNCHANGED schedVars
    /\ UNCHANGED unitVars
    /\ UNCHANGED << cleared, hist >>
    /\ UNCHANGED << loopRef, agentMade, messages, ws_clients, hpc, rec, turn,
                    nextTurn, loopQ, failedSends >>

\* ---------------------------------------------------------- POST /api/chat
\* chat, lines 93-101, for a body with a non-empty message (an empty one is
\* answered 400 and changes nothing).
HttpChat ==
    /\ inputs < MaxInputs
    /\ nextTurn <= MaxTurns
    /\ inputs' = inputs + 1
    /\ agentMade' = GetAgent
    /\ turn' = [turn EXCEPT ![nextTurn] = [NoTurn EXCEPT !.init = Http, !.st = "queued",
                                           !.regs = Range(ws_clients)]]
    /\ nextTurn' = nextTurn + 1
    /\ UNCHANGED schedVars
    /\ UNCHANGED unitVars
    /\ cleared' = FALSE
    /\ UNCHANGED hist
    /\ UNCHANGED << loopRef, messages, ws_clients, hpc, copen, rec, loopQ,
                    failedSends >>

\* ------------------------------------------- POST /api/reset, GET /api/history
\* reset, lines 109-114: agent.reset() on the loop thread, whatever the
\* worker threads are doing.  Agent.reset (agent/loop.py) empties the
\* message list.
HttpReset ==
    /\ inputs < MaxInputs
    /\ inputs' = inputs + 1
    /\ agentMade' = GetAgent
    /\ messages' = << >>
    /\ cleared' = TRUE
    /\ UNCHANGED schedVars
    /\ UNCHANGED unitVars
    /\ UNCHANGED << loopRef, ws_clients, hpc, copen, rec, turn, nextTurn, loopQ,
                    failedSends, hist >>

\* history, lines 117-121: agent.get_history() on the loop thread returns
\* the message list as it is at that moment.
HttpHistory ==
    /\ inputs < MaxInputs
    /\ inputs' = inputs + 1
    /\ agentMade' = GetAgent
    /\ hist' = [seen |-> TRUE, empty |-> messages = << >>,
                cleared |-> cleared]
    /\ UNCHANGED schedVars
    /\ UNCHANGED unitVars
    /\ UNCHANGED << loopRef, messages, ws_clients, hpc, copen, rec, turn,
                    nextTurn, loopQ, failedSends, cleared >>

\* list_jobs, lines 139-144: _get_agent, then the cron tool lists the job
\* store.
HttpJobs ==
    /\ inputs < MaxInputs
    /\ inputs' = inputs + 1
    /\ agentMade' = GetAgent
    /\ UNCHANGED schedVars
    /\ UNCHANGED unitVars
    /\ UNCHANGED << loopRef, messages, ws_clients, hpc, copen, rec, turn,
                    nextTurn, loopQ, failedSends, cleared, hist >>

\* ------------------------------------------------ the worker thread: chat
\* run_in_executor(None, agent.chat, ...), lines 101 and 166: the default
\* ThreadPoolExecutor has more threads than the model has turns, so every
\* queued call may start at once.  Agent.chat itself (agent/loop.py) is
\* modelled from its contract: it appends the user message, makes tool calls,
\* reporting each through on_tool_call, and returns the reply or raises.
ChatStart(t) ==
    /\ turn[t].st = "queued"
    /\ turn' = [turn EXCEPT ![t].st = "running"]
    /\ messages' = Append(messages, [role |-> "user", turn |-> t])
    /\ UNCHANGED schedVars
    /\ UNCHANGED unitVars
    /\ UNCHANGED << cleared, hist >>
    /\ UNCHANGED << loopRef, agentMade, ws_clients, hpc, copen, rec, nextTurn,
                    loopQ, failedSends, inputs >>

ToolCalls == Sum([t \in Turns |-> turn[t].tools], Turns)

\* A tool call ends with on_tool_call -> _on_tool_call (lines 46-54), which
\* enters _broadcast: dead = [] and an iterator over _ws_clients (65-66).
ChatToolCall(t) ==
    /\ turn[t].st = "running"
    /\ turn[t].pc = "chat"
    /\ ToolCalls < MaxTools
    /\ turn' = [turn EXCEPT ![t].tools = @ + 1, ![t].pc = "iter",
                            ![t].idx = 1, ![t].dead = << >>,
                            ![t].cb = "tool_call"]
    /\ UNCHANGED schedVars
    /\ UNCHANGED unitVars
    /\ UNCHANGED << cleared, hist >>
    /\ UNCHANGED << loopRef, agentMade, messages, ws_clients, hpc, copen, rec,
                    nextTurn, loopQ, failedSends, inputs >>

\* The Agent reports a text through on_message -> _on_message (lines
\* 57-60), which enters _broadcast like a tool call does.  The callbacks of
\* a Turn are numbered together.
ChatMessage(t) ==
    /\ turn[t].st = "running"
    /\ turn[t].pc = "chat"
    /\ ToolCalls < MaxTools
    /\ turn' = [turn EXCEPT ![t].tools = @ + 1, ![t].pc = "iter",
                            ![t].idx = 1, ![t].dead = << >>,
                            ![t].cb = "message"]
    /\ UNCHANGED schedVars
    /\ UNCHANGED unitVars
    /\ UNCHANGED << cleared, hist >>
    /\ UNCHANGED << loopRef, agentMade, messages, ws_clients, hpc, copen, rec,
                    nextTurn, loopQ, failedSends, inputs >>

\* The executor's future completes; its result reaches the awaiting handler
\* through call_soon_threadsafe, behind whatever the thread queued before.
Wake(t) == [kind |-> "wake", conn |-> 0, ev |-> Event("wake", t, 0)]

ChatReturn(t) ==
    /\ turn[t].st = "running"
    /\ turn[t].pc = "chat"
    /\ turn' = [turn EXCEPT ![t].st = "returned"]
    /\ messages' = Append(messages, [role |-> "assistant", turn |-> t])
    /\ loopQ' = Append(loopQ, Wake(t))
    /\ UNCHANGED schedVars
    /\ UNCHANGED unitVars
    /\ UNCHANGED << cleared, hist >>
    /\ UNCHANGED << loopRef, agentMade, ws_clients, hpc, copen, rec, nextTurn,
                    failedSends, inputs >>

ChatRaise(t) ==
    /\ turn[t].st = "running"
    /\ turn[t].pc = "chat"
    /\ turn' = [turn EXCEPT ![t].st = "raised"]
    /\ loopQ' = Append(loopQ, Wake(t))
    /\ UNCHANGED schedVars
    /\ UNCHANGED unitVars
    /\ UNCHANGED << cleared, hist >>
    /\ UNCHANGED << loopRef, agentMade, messages, ws_clients, hpc, copen, rec,
                    nextTurn, failedSends, inputs >>

\* ------------------------------------------ the worker thread: _broadcast
\* A _broadcast that writes to the sockets itself, on the worker thread.
BroadcastIterDirect(t) ==
    /\ turn[t].st = "running"
    /\ turn[t].pc = "iter"
    /\ LET i == turn[t].idx IN
       IF i <= Len(ws_clients)
         THEN /\ rec' = [rec EXCEPT ![ws_clients[i]] =
                          Append(@, Event("tool_call", t, turn[t].tools))]
              /\ turn' = [turn EXCEPT ![t].idx = i + 1]
         ELSE /\ rec' = rec
              /\ turn' = [turn EXCEPT ![t].pc = "chat"]
    /\ UNCHANGED schedVars
    /\ UNCHANGED unitVars
    /\ UNCHANGED << loopRef, agentMade, messages, ws_clients, hpc, copen,
                    nextTurn, loopQ, failedSends, inputs, cleared, hist >>

\* One pass of the for loop of lines 66-70.  A Python list iterator holds an
\* index and stops when the index reaches the list's current length.
\* run_coroutine_threadsafe only queues ws.send_text on _loop: it raises
\* here (and ws is marked dead) only when _loop is not a running loop.
BroadcastIter(t) ==
    /\ turn[t].st = "running"
    /\ turn[t].pc = "iter"
    /\ LET i == turn[t].idx IN
       IF i <= Len(ws_clients)
         THEN LET ws == ws_clients[i] IN
              IF loopRef = "loop"
                THEN /\ loopQ' = Append(loopQ,
                            [kind |-> "send", conn |-> ws,
                             ev |-> Event(turn[t].cb, t, turn[t].tools)])
                     /\ turn' = [turn EXCEPT ![t].idx = i + 1]
                ELSE /\ loopQ' = loopQ
                     /\ turn' = [turn EXCEPT ![t].idx = i + 1,
                                             ![t].dead = Append(@, ws)]
         ELSE /\ loopQ' = loopQ
              /\ turn' = [turn EXCEPT ![t].pc =
                            IF turn[t].dead = << >> THEN "chat" ELSE "cleanup"]
    /\ UNCHANGED schedVars
    /\ UNCHANGED unitVars
    /\ UNCHANGED << cleared, hist >>
    /\ UNCHANGED << loopRef, agentMade, messages, ws_clients, hpc, copen, rec,
                    nextTurn, failedSends, inputs >>

\* One pass of the for loop of lines 71-72: _ws_clients.remove(ws), with no
\* membership test.  list.remove raises ValueError when ws is gone; nothing
\* catches it in _broadcast or _on_tool_call, so it unwinds agent.chat.
BroadcastRemove(t) ==
    /\ turn[t].st = "running"
    /\ turn[t].pc = "cleanup"
    /\ LET ws == Head(turn[t].dead) IN
       IF ws \in Range(ws_clients)
         THEN /\ ws_clients' = RemoveFirst(ws_clients, ws)
              /\ turn' = [turn EXCEPT ![t].dead = Tail(@),
                            ![t].pc = IF Tail(turn[t].dead) = << >>
                                        THEN "chat" ELSE "cleanup"]
              /\ loopQ' = loopQ
         ELSE /\ ws_clients' = ws_clients
              /\ turn' = [turn EXCEPT ![t].bErr = TRUE, ![t].pc = "chat",
                                      ![t].st = "raised"]
              /\ loopQ' = Append(loopQ, Wake(t))
    /\ UNCHANGED schedVars
    /\ UNCHANGED unitVars
    /\ UNCHANGED << cleared, hist >>
    /\ UNCHANGED << loopRef, agentMade, messages, hpc, copen, rec, nextTurn,
                    failedSends, inputs >>

\* ------------------------------------------------ the event loop's queue
\* A coroutine queued by run_coroutine_threadsafe (line 68) runs: it writes
\* to the socket, or ws.send_text raises.  The exception is stored in a
\* future that nobody reads.
LoopSend ==
    /\ loopQ # << >>
    /\ Head(loopQ).kind = "send"
    /\ LET c == Head(loopQ).conn IN
       IF copen[c]
         THEN /\ rec' = [rec EXCEPT ![c] = Append(@, Head(loopQ).ev)]
              /\ UNCHANGED failedSends
         ELSE /\ failedSends' = failedSends \cup {c}
              /\ UNCHANGED rec
    /\ loopQ' = Tail(loopQ)
    /\ UNCHANGED schedVars
    /\ UNCHANGED unitVars
    /\ UNCHANGED << cleared, hist >>
    /\ UNCHANGED << loopRef, agentMade, messages, ws_clients, hpc, copen, turn,
                    nextTurn, inputs >>

\* How ws.send_text fails on a closed socket depends on the installed
\* starlette/uvicorn: WebSocketDisconnect, or another exception.
SendErrors == {"WebSocketDisconnect", "other"}

\* websocket_endpoint resumes at line 166 with the result of agent.chat and
\* sends 'response' (170-173); or the await re-raises what agent.chat raised,
\* which line 180 does not catch.
WsResume ==
    /\ loopQ # << >>
    /\ Head(loopQ).kind = "wake"
    /\ LET t == Head(loopQ).ev.turn
           c == turn[t].init IN
       /\ c # Http
       /\ IF turn[t].st = "returned"
            THEN IF copen[c]
                   THEN /\ rec' = [rec EXCEPT ![c] =
                                      Append(@, Event("response", t, 0))]
                        /\ turn' = [turn EXCEPT ![t].reply = "response"]
                        /\ hpc' = [hpc EXCEPT ![c] = "recv"]
                   ELSE /\ UNCHANGED rec
                        /\ turn' = [turn EXCEPT ![t].reply = "undeliverable"]
                        /\ \E err \in SendErrors :
                             IF err = "WebSocketDisconnect"
                               THEN ExceptDisconnect(c)
                               ELSE hpc' = [hpc EXCEPT ![c] = "crashed_send"]
            ELSE /\ UNCHANGED rec
                 /\ turn' = [turn EXCEPT ![t].reply = "crashed"]
                 /\ hpc' = [hpc EXCEPT ![c] = "crashed_turn"]
       /\ copen' = [copen EXCEPT ![c] = copen[c] /\ turn[t].st = "returned"]
    /\ loopQ' = Tail(loopQ)
    /\ UNCHANGED schedVars
    /\ UNCHANGED unitVars
    /\ UNCHANGED << cleared, hist >>
    /\ UNCHANGED << loopRef, agentMade, messages, ws_clients, nextTurn,
                    failedSends, inputs >>

\* chat resumes at line 101 and answers (103-106); an exception of
\* agent.chat leaves the handler and the framework answers 500.
HttpReply ==
    /\ loopQ # << >>
    /\ Head(loopQ).kind = "wake"
    /\ LET t == Head(loopQ).ev.turn IN
       /\ turn[t].init = Http
       /\ turn' = [turn EXCEPT ![t].reply =
                     IF turn[t].st = "returned" THEN "http200" ELSE "http500"]
    /\ loopQ' = Tail(loopQ)
    /\ UNCHANGED schedVars
    /\ UNCHANGED unitVars
    /\ UNCHANGED << cleared, hist >>
    /\ UNCHANGED << loopRef, agentMade, messages, ws_clients, hpc, copen, rec,
                    nextTurn, failedSends, inputs >>

\* ------------------------------------------------------------ the server
ServerNext ==
    \/ \E c \in Conns : WsAccept(c)
    \/ \E c \in Conns : WsChat(c)
    \/ \E c \in Conns : WsReset(c)
    \/ \E c \in Conns : WsBadJson(c)
    \/ \E c \in Conns : WsDisconnect(c)
    \/ \E c \in Conns : WsUnregister(c)
    \/ \E c \in Conns : ClientClose(c)
    \/ HttpChat
    \/ HttpReset
    \/ HttpHistory
    \/ HttpJobs
    \/ \E t \in Turns : ChatStart(t)
    \/ \E t \in Turns : ChatToolCall(t)
    \/ \E t \in Turns : ChatReturn(t)
    \/ \E t \in Turns : ChatRaise(t)
    \/ \E t \in Turns : BroadcastIter(t)
    \/ \E t \in Turns : BroadcastRemove(t)
    \/ LoopSend
    \/ WsResume
    \/ HttpReply

vars == << serverVars, schedVars, unitVars >>

\* ------------------------------------------------ FilesTool (files.py)
\* A location is an absolute path without ".." : the sequence of its
\* component names from the root.  The workspace is /w; /wx is a sibling
\* directory whose name starts with the workspace's name.
Workspace == << "w" >>

Names == {"w", "wx", "f"}
Comps == Names \cup {".."}

\* The characters of a component name.
Spell(n) ==
    CASE n = "w"  -> << "w" >>
      [] n = "wx" -> << "w", "x" >>
      [] n = "f"  -> << "f" >>

\* str(Path): "/" for the root, else "/" and the name for each component.
RECURSIVE StrOf(_)
StrOf(loc) ==
    IF loc = << >> THEN << "/" >>
    ELSE IF Len(loc) = 1 THEN << "/" >> \o Spell(loc[1])
    ELSE << "/" >> \o Spell(Head(loc)) \o StrOf(Tail(loc))

\* str.startswith
StartsWith(s, prefix) ==
    /\ Len(prefix) <= Len(s)
    /\ SubSeq(s, 1, Len(prefix)) = prefix

\* Path.resolve() on an absolute path without symbolic links: each ".."
\* drops the component before it; the root's parent is the root.
RECURSIVE Normalize(_, _)
Normalize(done, parts) ==
    IF parts = << >> THEN done
    ELSE IF Head(parts) = ".."
      THEN Normalize(IF done = << >> THEN << >>
                     ELSE SubSeq(done, 1, Len(done) - 1), Tail(parts))
      ELSE Normalize(Append(done, Head(parts)), Tail(parts))

\* A path argument: absolute or relative, and its components.
PathArgs ==
    [abs : BOOLEAN,
     parts : UNION { [1..n -> Comps] : n \in 0..MaxDepth }]

\* self.workspace / path: an absolute path replaces the workspace.
Join(path) == IF path.abs THEN path.parts ELSE Workspace \o path.parts

\* loc is the workspace root or lies beneath it.
InWorkspace(loc) ==
    /\ Len(loc) >= Len(Workspace)
    /\ SubSeq(loc, 1, Len(Workspace)) = Workspace

\* FilesTool._resolve, lines 68-74: the resolved location, accepted when
\* its string starts with the workspace's string; else PermissionError.
ResolvePath(path) ==
    LET r == Normalize(<< >>, Join(path))
    IN  [ok |-> StartsWith(StrOf(r), StrOf(Workspace)), loc |-> r]

NoArgs == [action |-> "none", path |-> [abs |-> FALSE, parts |-> << >>],
           destination |-> [abs |-> FALSE, parts |-> << >>]]
NoRes == [applied |-> FALSE, ok |-> FALSE, loc |-> << >>]
NoOut == [applied |-> FALSE, raised |-> FALSE, text |-> "none", before |-> {}]

\* ------------------------------------------------- models.py fetch_models
\* The providers tried: "openrouter" (line 174, fetched with or without a
\* key), "anthropic" (lines 176-180; "claude_max" and "openai", lines 176
\* and 181-185, take the same steps: no key, no fetch), and "bedrock" (line
\* 186: no list endpoint).
Providers == {"openrouter", "anthropic", "bedrock"}

NeedsKey == {"anthropic"}

NoList == [src |-> "none", id |-> ""]

\* _FALLBACKS.get(provider, []), lines 23-61: a hardcoded non-empty list for
\* each of the providers tried.
Fallback(p) == [src |-> "fallback", id |-> p]

\* A non-empty list built by _fetch_openrouter or _fetch_anthropic from the
\* endpoint's answer (lines 74-136).
Live(v) == [src |-> "live", id |-> ToString(v)]

NoEntry == [has |-> FALSE, ts |-> 0, list |-> NoList]

NoRet == [applied |-> FALSE, provider |-> "none", fetch |-> "none",
          raised |-> FALSE, list |-> NoList, at |-> 0, before |-> NoEntry]

\* What a live fetch can come to. "list": the endpoint answered and the
\* helper built a non-empty list. "empty": it built an empty list (no
\* model passed the filter of lines 89-92, or "data" was empty). "caught":
\* an exception of the tuple of line 193 (URLError for a refused connection
\* or an HTTP error status, OSError for a timeout, JSONDecodeError for a
\* body that is not JSON). "uncaught": an exception outside that tuple:
\* http.client.IncompleteRead from resp.read() (line 71) when the connection
\* drops inside the body, UnicodeDecodeError (a ValueError) from json.loads
\* on a body that is not UTF-8, AttributeError from data.get (lines 81, 127)
\* when the body is a JSON array or string.
FetchOutcomes == {"list", "empty", "caught", "uncaught"}

\* line 171: the entry is present and younger than _CACHE_TTL.
Fresh(e, t) == e.has /\ t - e.ts < CACHE_TTL

\* The clock moves by just under, exactly, or just over the time to live.
Steps == {CACHE_TTL - 1, CACHE_TTL, CACHE_TTL + 1}

ModelsInit ==
    /\ cache = [p \in Providers |-> NoEntry]
    /\ mono = 0
    /\ ret = NoRet

UnitInit ==
    /\ sent = << >>
    /\ args = NoArgs
    /\ disk = {}
    /\ resolved = NoRes
    /\ out = NoOut
    /\ ModelsInit

Init == ServerInit /\ SchedInit /\ UnitInit

Spec == Init /\ [][ServerNext]_vars

\* The server with an Agent that also reports texts through on_message.
WireNext == ServerNext \/ \E t \in Turns : ChatMessage(t)

SpecWire == Init /\ [][WireNext]_vars

\* ------------------------------------------------------ _start_scheduler
\* Lines 203-237 for one job raise when job["cron"] raises KeyError (line
\* 210) or CronTrigger raises ValueError (lines 212-219); a paused job is
\* passed over at line 205 before either.
RegisterRaises(job) ==
    /\ ~job.paused
    /\ job.type = "cron"
    /\ job.cron \in {"missing", "rejected"}

\* A registration without the paused test of lines 204-205.
RegisterPaused(job, L) ==
    IF job.type = "cron"
      THEN IF job.cron = "ok" THEN L + 1 ELSE NoTimer
    ELSE IF job.type = "interval" THEN L + 1
    ELSE IF job.type = "date" THEN job.run_at
    ELSE NoTimer

\* The first run time of the timer lines 203-237 add for one job at second
\* L, NoTimer if they add none (paused, a cron expression without five
\* fields, an unknown schedule_type).  A cron or interval timer first runs
\* one period after the load; a date timer runs at run_at.
Register(job, L) ==
    IF job.paused THEN NoTimer
    ELSE IF job.type = "cron"
      THEN IF job.cron = "ok" THEN L + 1 ELSE NoTimer
    ELSE IF job.type = "interval" THEN L + 1
    ELSE IF job.type = "date" THEN job.run_at
    ELSE NoTimer

Raises == { j \in JobIds : RegisterRaises(jobs[j]) }

\* start_server calls _start_scheduler once (line 275), before it makes
\* the event loop (line 279) and serves.  Without APScheduler it returns at
\* line 196.  An exception of the for loop leaves the function before
\* scheduler.start() (line 239) and leaves start_server too: the timers
\* added so far belong to a scheduler that never runs, and nothing is served.
StartScheduler ==
    /\ spc = "init"
    /\ loadedAt' = now
    /\ \E installed \in BOOLEAN :
         IF ~installed
           THEN spc' = "disabled" /\ UNCHANGED next
           ELSE IF Raises # {}
             THEN spc' = "failed" /\ UNCHANGED next
             ELSE /\ spc' = "started"
                  /\ next' = [j \in JobIds |-> Register(jobs[j], now)]
    /\ loopRef' = IF spc' = "failed" THEN loopRef ELSE "loop"
    /\ UNCHANGED << fire, now, files, jobs >>
    /\ UNCHANGED << agentMade, messages, ws_clients, hpc, copen, rec, turn,
                    nextTurn, loopQ, failedSends, inputs, cleared, hist >>
    /\ UNCHANGED unitVars

Due(j) == spc = "started" /\ next[j] # NoTimer /\ next[j] <= now

\* A trigger that repeats whatever the schedule type.
RescheduleRepeating(j) == [next EXCEPT ![j] = @ + 1]

\* After a run time of job j has been handled: a date trigger has no further
\* fire time and the job is removed; the others run one period later.
Reschedule(j) ==
    [next EXCEPT ![j] = IF jobs[j].type = "date" THEN NoTimer ELSE @ + 1]

Running(j) ==
    \E g \in Fires : fire[g].job = j /\ fire[g].pc \notin {"idle", "done", "crashed"}

\* The scheduler drops a run time that is more than misfire_grace_time late,
\* or whose job is still running (max_instances is 1).
Dropped(j) == now - next[j] > MisfireGrace \/ Running(j)

SchedMiss(j) ==
    /\ Due(j)
    /\ Dropped(j)
    /\ next' = Reschedule(j)
    /\ UNCHANGED << fire, now, files, jobs, spc, loadedAt >>
    /\ UNCHANGED serverVars
    /\ UNCHANGED unitVars

\* ------------------------------------------------- _run_scheduled_task
\* The scheduler's executor calls _run_scheduled_task(task) on a pool thread
\* of its own; fires of different jobs may overlap.  Fires are numbered in
\* the order they happen.
SchedFire(f) ==
    /\ fire[f].pc = "idle"
    /\ \A g \in Fires : g < f => fire[g].pc # "idle"
    /\ \E j \in JobIds :
         /\ Due(j)
         /\ ~Dropped(j)
         /\ fire' = [fire EXCEPT ![f].pc = "config", ![f].job = j]
         /\ next' = Reschedule(j)
    /\ UNCHANGED << now, files, jobs, spc, loadedAt >>
    /\ UNCHANGED serverVars
    /\ UNCHANGED unitVars

\* Line 244, outside the try: get_agent_config() returns, or raises (a
\* config.json that is valid JSON but not an object, an unreadable encoding).
RunConfig(f) ==
    /\ fire[f].pc = "config"
    /\ \E ok \in BOOLEAN :
         fire' = [fire EXCEPT ![f].pc = IF ok THEN "construct" ELSE "crashed"]
    /\ UNCHANGED << now, files, jobs, spc, next, loadedAt >>
    /\ UNCHANGED serverVars
    /\ UNCHANGED unitVars

\* Lines 245-249, outside the try: Agent(...) is constructed, or raises.
\* It is a new Agent, built without on_tool_call and on_message.
RunConstruct(f) ==
    /\ fire[f].pc = "construct"
    /\ \E ok \in BOOLEAN :
         fire' = [fire EXCEPT ![f].pc = IF ok THEN "chat" ELSE "crashed"]
    /\ UNCHANGED << now, files, jobs, spc, next, loadedAt >>
    /\ UNCHANGED serverVars
    /\ UNCHANGED unitVars

\* A scheduled run on the Agent of _get_agent(): its messages go to the
\* interactive message list.
RunChatShared(f) ==
    /\ fire[f].pc = "chat"
    /\ \E ok \in BOOLEAN :
         fire' = [fire EXCEPT ![f].pc = IF ok THEN "log_result"
                                              ELSE "log_error"]
    /\ messages' = Append(messages, [role |-> "user", turn |-> 0])
    /\ UNCHANGED << now, files, jobs, spc, next, loadedAt >>
    /\ UNCHANGED << loopRef, agentMade, ws_clients, hpc, copen, rec, turn,
                    nextTurn, loopQ, failedSends, inputs, cleared, hist >>
    /\ UNCHANGED unitVars

\* Line 252: agent.chat(task) on the Agent of line 245 returns, or raises
\* into the except clause.  The task and the reply go to that Agent's own
\* message list; it has no callbacks, so nothing is broadcast.
RunChat(f) ==
    /\ fire[f].pc = "chat"
    /\ \E ok \in BOOLEAN :
         fire' = [fire EXCEPT ![f].pc = IF ok THEN "log_result"
                                              ELSE "log_error",
                              ![f].msgs = IF ok THEN 2 ELSE 1]
    /\ UNCHANGED << now, files, jobs, spc, next, loadedAt >>
    /\ UNCHANGED serverVars
    /\ UNCHANGED unitVars

\* Path.write_text opens the file for writing, which creates or truncates
\* it, and then writes.  "fail": mkdir or open raised, no file is touched;
\* "partial": the write raised after the open.
WriteOutcomes == {"ok", "fail", "partial"}

WriteText(fs, ts, kind, f, whole) ==
    {x \in fs : ~(x.ts = ts /\ x.kind = kind)}
      \cup {[ts |-> ts, kind |-> kind, by |-> f, whole |-> whole]}

\* Lines 254-257, inside the try: the result record, named by the second.
\* An exception here is caught by line 258 like one of agent.chat.
RunLogResult(f) ==
    /\ fire[f].pc = "log_result"
    /\ \E res \in WriteOutcomes :
         /\ files' = IF res = "fail" THEN files
                     ELSE WriteText(files, now, "result", f, res = "ok")
         /\ fire' = [fire EXCEPT
                       ![f].pc = IF res = "ok" THEN "done" ELSE "log_error",
                       ![f].wrote = IF res = "ok" THEN @ \cup {"result"}
                                    ELSE @]
    /\ UNCHANGED << now, jobs, spc, next, loadedAt >>
    /\ UNCHANGED serverVars
    /\ UNCHANGED unitVars

\* Lines 259-262, the except clause: the error record.  Nothing catches an
\* exception raised here.
RunLogError(f) ==
    /\ fire[f].pc = "log_error"
    /\ \E res \in WriteOutcomes :
         /\ files' = IF res = "fail" THEN files
                     ELSE WriteText(files, now, "error", f, res = "ok")
         /\ fire' = [fire EXCEPT
                       ![f].pc = IF res = "ok" THEN "done" ELSE "crashed",
                       ![f].wrote = IF res = "ok" THEN @ \cup {"error"}
                                    ELSE @]
    /\ UNCHANGED << now, jobs, spc, next, loadedAt >>
    /\ UNCHANGED serverVars
    /\ UNCHANGED unitVars

\* A second passes.  The scheduler's timer thread wakes at each run time:
\* time does not pass over a due timer.
Tick ==
    /\ now < MaxClock
    /\ \A j \in JobIds : ~Due(j)
    /\ now' = now + 1
    /\ UNCHANGED << fire, files, jobs, spc, next, loadedAt >>
    /\ UNCHANGED serverVars
    /\ UNCHANGED unitVars

\* The server once it serves, as far as the scheduler's runs could meet
\* it: one POST /api/chat whose agent.chat starts on a worker thread.
FirstHttpChat ==
    /\ loopRef = "loop"
    /\ nextTurn = 1
    /\ HttpChat

SchedNext ==
    \/ StartScheduler
    \/ \E j \in JobIds : SchedMiss(j)
    \/ \E f \in Fires : SchedFire(f)
    \/ \E f \in Fires : RunConfig(f)
    \/ \E f \in Fires : RunConstruct(f)
    \/ \E f \in Fires : RunChat(f)
    \/ \E f \in Fires : RunLogResult(f)
    \/ \E f \in Fires : RunLogError(f)
    \/ Tick
    \/ FirstHttpChat
    \/ \E t \in Turns : ChatStart(t)

\* start_server has been called: nothing is served yet (_loop is None), and
\* the job store holds what earlier runs of the program left in it.
SchedSpecInit ==
    /\ ServerInit
    /\ loopRef = "None"
    /\ fire = [f \in Fires |-> NoFire]
    /\ now = 0
    /\ files = {}
    /\ jobs \in JobStores
    /\ spc = "init"
    /\ next = [j \in JobIds |-> NoTimer]
    /\ loadedAt = 0
    /\ UnitInit

SpecSched == SchedSpecInit /\ [][SchedNext]_vars

\* ------------------------------------------- _on_tool_call, _on_message
\* A text is modelled by its length in characters; the lengths tried lie
\* around the cap.
TextLens == {0, 1, ResultCap - 1, ResultCap, ResultCap + 1, 2 * ResultCap}

\* Python's s[:k] on a text of n characters keeps the first k, or all n.
Slice(n, k) == IF n <= k THEN n ELSE k

ToolNames == {"files", "shell"}

\* Lines 46-54: the tool_call message; only result is cut.
OnToolCall ==
    /\ Len(sent) < MaxEvents
    /\ \E name \in ToolNames, params \in TextLens, result \in TextLens :
         sent' = Append(sent, [type |-> "tool_call", tool |-> name,
                               params |-> params,
                               result |-> Slice(result, ResultCap),
                               content |-> 0, given |-> result])
    /\ UNCHANGED filesVars
    /\ UNCHANGED modelsVars
    /\ UNCHANGED serverVars
    /\ UNCHANGED schedVars

\* Lines 57-60: the message event; content is the text as given.
OnMessage ==
    /\ Len(sent) < MaxEvents
    /\ \E text \in TextLens :
         sent' = Append(sent, [type |-> "message", tool |-> "none",
                               params |-> 0, result |-> 0,
                               content |-> text, given |-> text])
    /\ UNCHANGED filesVars
    /\ UNCHANGED modelsVars
    /\ UNCHANGED serverVars
    /\ UNCHANGED schedVars

PayloadNext == OnToolCall \/ OnMessage

SpecPayload == Init /\ [][PayloadNext]_vars

\* -------------------------------------------------- FilesTool.execute
Actions == {"read", "write", "list", "move", "copy", "delete", "mkdir",
            "info", "other"}

\* The directories above loc, the root left out.
Parents(loc) == { SubSeq(loc, 1, n) : n \in 1..(Len(loc) - 1) }

\* loc and everything beneath it.
Under(loc, d) ==
    { x \in d : Len(x) >= Len(loc) /\ SubSeq(x, 1, Len(loc)) = loc }

\* The workspace property, lines 61-66: every use creates the directory.
WithWorkspace(d) == d \cup {Workspace} \cup Parents(Workspace)

Returned(text, d) == [raised |-> "none", text |-> text, disk |-> d]
Raised(exc, d) == [raised |-> exc, text |-> "none", disk |-> d]

\* The helpers _read .. _info, lines 105-230, for a call whose operating
\* system calls fail (oserr) or not: the text returned or the exception
\* raised, and the file system left.  "empty" is the argument "".
Helper(a, oserr) ==
    LET empty(p) == ~p.abs /\ p.parts = << >>
        d   == WithWorkspace(disk)
        src == ResolvePath(a.path)
        dst == ResolvePath(a.destination)
        two == a.action \in {"move", "copy"}
    IN  IF a.action # "list" /\ (empty(a.path) \/ (two /\ empty(a.destination)))
          THEN Returned("required", disk)
        ELSE IF ~src.ok \/ (two /\ ~dst.ok)
          THEN Raised("PermissionError", d)
        ELSE IF a.action \in {"read", "list", "info"}
          THEN IF src.loc \notin d THEN Returned("not_found", d)
               ELSE IF oserr THEN Raised("OSError", d)
               ELSE Returned("ok", d)
        ELSE IF a.action \in {"write", "mkdir"}
          THEN IF oserr THEN Raised("OSError", d)
               ELSE Returned("ok", d \cup Parents(src.loc) \cup {src.loc})
        ELSE IF a.action = "delete"
          THEN IF src.loc \notin d THEN Returned("not_found", d)
               ELSE IF src.loc = Workspace THEN Returned("refused", d)
               ELSE IF oserr THEN Raised("OSError", d)
               ELSE Returned("ok", d \ Under(src.loc, d))
        ELSE IF src.loc \notin d THEN Returned("not_found", d)
        ELSE IF oserr THEN Raised("OSError", d)
        ELSE Returned("ok",
               ((IF a.action = "move" THEN d \ Under(src.loc, d) ELSE d)
                  \cup Parents(dst.loc)) \cup {dst.loc})

\* execute, lines 76-103: the dispatch and the three except clauses.
ExecuteResult(a, oserr) ==
    IF a.action = "other" THEN Returned("unknown", disk)
    ELSE LET h == Helper(a, oserr) IN
         IF h.raised = "PermissionError" THEN Returned("permission", h.disk)
         ELSE IF h.raised = "FileNotFoundError"
           THEN Returned("file_not_found", h.disk)
         ELSE IF h.raised # "none" THEN Returned("error", h.disk)
         ELSE h

\* The tool applies _resolve to the path argument.
Resolve ==
    /\ ~resolved.applied
    /\ args.action # "none"
    /\ resolved' = [applied |-> TRUE, ok |-> ResolvePath(args.path).ok,
                    loc |-> ResolvePath(args.path).loc]
    /\ UNCHANGED << sent, args, disk, out >>
    /\ UNCHANGED modelsVars
    /\ UNCHANGED serverVars
    /\ UNCHANGED schedVars

\* The Agent calls execute(**args).
Execute ==
    /\ ~out.applied
    /\ args.action # "none"
    /\ \E oserr \in BOOLEAN :
         LET r == ExecuteResult(args, oserr) IN
         /\ out' = [applied |-> TRUE, raised |-> r.raised # "none",
                    text |-> r.text, before |-> disk]
         /\ disk' = r.disk
    /\ UNCHANGED << sent, args, resolved >>
    /\ UNCHANGED modelsVars
    /\ UNCHANGED serverVars
    /\ UNCHANGED schedVars

FilesNext == Resolve \/ Execute

\* The file systems tried: no workspace yet; an empty workspace beside the
\* sibling; both with a file f.
Disks ==
    { {},
      { << "w" >>, << "wx" >> },
      { << "w" >>, << "w", "f" >>, << "wx" >>, << "wx", "f" >> } }

FilesInit ==
    /\ ServerInit
    /\ loopRef = "None"
    /\ SchedInit
    /\ sent = << >>
    /\ args \in [action : Actions, path : PathArgs, destination : PathArgs]
    /\ args.action \notin {"move", "copy"} => args.destination = NoArgs.destination
    /\ disk \in Disks
    /\ resolved = NoRes
    /\ out = NoOut
    /\ ModelsInit

SpecFiles == FilesInit /\ [][FilesNext]_vars

\* fetch_models(provider, api_key), lines 159-196. keyed: api_key or
\* get_provider_key(provider) is a non-empty string (line 172). f, v: what
\* the live fetch comes to when one is made.
FetchResult(p, keyed, f, v) ==
    LET hit  == [fetch |-> "none", raised |-> FALSE,
                 list |-> cache[p].list, entry |-> cache[p]]
        fall == [fetch |-> "none", raised |-> FALSE,
                 list |-> Fallback(p), entry |-> cache[p]]
        live == CASE f = "list" ->
                       [fetch |-> f, raised |-> FALSE, list |-> Live(v),
                        entry |-> [has |-> TRUE, ts |-> mono,
                                   list |-> Live(v)]]
                  [] f = "uncaught" ->
                       [fetch |-> f, raised |-> TRUE, list |-> NoList,
                        entry |-> cache[p]]
                  [] OTHER ->
                       [fetch |-> f, raised |-> FALSE, list |-> Fallback(p),
                        entry |-> cache[p]]
    IN  IF Fresh(cache[p], mono) THEN hit
        ELSE IF p = "openrouter" THEN live
        ELSE IF p \in NeedsKey THEN (IF keyed THEN live ELSE fall)
        ELSE fall

FetchModels ==
    \E p \in Providers, keyed \in BOOLEAN, f \in FetchOutcomes, v \in 1..NLists :
       LET r == FetchResult(p, keyed, f, v) IN
       /\ ret' = [applied |-> TRUE, provider |-> p, fetch |-> r.fetch,
                  raised |-> r.raised, list |-> r.list, at |-> mono,
                  before |-> cache[p]]
       /\ cache' = [cache EXCEPT ![p] = r.entry]
       /\ UNCHANGED << mono, sent, filesVars >>
       /\ UNCHANGED serverVars
       /\ UNCHANGED schedVars

\* Time passes between two calls.
Advance ==
    \E d \in Steps :
       /\ mono + d <= MaxMono
       /\ mono' = mono + d
       /\ UNCHANGED << cache, ret, sent, filesVars >>
       /\ UNCHANGED serverVars
       /\ UNCHANGED schedVars

ModelsNext == FetchModels \/ Advance

SpecModels == Init /\ [][ModelsNext]_vars

\* =================================================================== claims
Started  == {"running", "returned", "raised"}
Finished == {"returned", "raised"}

\* The tool_call events of turn t that connection c has been sent, in order.
ToolEventsSeen(c, t) ==
    SelectSeq(rec[c], LAMBDA e : e.type = "tool_call" /\ e.turn = t)

\* C1: at every instant at most one agent.chat call is executing against
\* the interactive Agent.
C1_SingleFlight ==
    Cardinality({t \in Turns : turn[t].st = "running"}) <= 1

\* C2: no connection is sent a tool_call or response event of another Turn
\* between a Turn's tool_call and that Turn's response.
C2_NoInterleaving ==
    \A c \in Conns :
      \A i, j, k \in DOMAIN rec[c] :
        ~ /\ i < j /\ j < k
          /\ rec[c][i].type = "tool_call"
          /\ rec[c][k].type = "response"
          /\ rec[c][k].turn = rec[c][i].turn
          /\ rec[c][j].type \in {"tool_call", "response"}
          /\ rec[c][j].turn # rec[c][i].turn

\* C3: Turns execute in submission order: a chat request received later
\* does not start agent.chat before every earlier one has finished.
C3_SubmissionOrder ==
    \A x, y \in Turns :
      (x < y /\ turn[y].st \in Started) => turn[x].st \in Finished

\* C4: with _loop set by start_server, once a Turn's completion has been
\* reported to its initiator, every
\* connection that was registered when the Turn arrived and is still
\* registered and open has been sent all of the Turn's tool_call events, in
\* the order produced.
C4_EventsBeforeCompletion ==
    \A t \in Turns :
      (loopRef = "loop" /\ turn[t].reply # "none") =>
        \A c \in turn[t].regs :
          (c \in Range(ws_clients) /\ copen[c]) =>
            ToolEventsSeen(c, t) =
              [k \in 1..turn[t].tools |-> Event("tool_call", t, k)]

\* C5: after a call of _broadcast, the connections whose delivery failed
\* have been removed from _ws_clients.
C5_FailedRemoved ==
    (\A t \in Turns : turn[t].pc = "chat") =>
      \A c \in failedSends : c \notin Range(ws_clients)

\* C6: _broadcast never propagates an error to its caller.
C6_BroadcastNeverRaises ==
    \A t \in Turns : ~turn[t].bErr

\* C7: a connection is in _ws_clients at most once, and no removal of an
\* absent connection, by the disconnect handling or by _broadcast, raises.
C7_RegistryIdempotent ==
    /\ \A i, j \in DOMAIN ws_clients :
         i # j => ws_clients[i] # ws_clients[j]
    /\ \A c \in Conns : hpc[c] # "crashed_remove"
    /\ \A t \in Turns : turn[t].pc = "chat" /\ turn[t].st = "raised" =>
         ~turn[t].bErr

\* C8: once the /ws handler of a connection has ended, for whatever reason,
\* the connection is no longer in _ws_clients.
C8_EndedUnregistered ==
    \A c \in Conns : hpc[c] \in Ended => c \notin Range(ws_clients)

\* C9: a failure raised inside agent.chat is reported to the Turn's
\* initiator as the Turn's failed outcome: a 'response' event on /ws, an
\* error reply on HTTP.
C9_FailureReturned ==
    \A t \in Turns :
      (turn[t].st = "raised" /\ turn[t].reply # "none") =>
        turn[t].reply \in {"response", "http500"}

\* C10: every fire of _run_scheduled_task that has ended has written
\* exactly one log record, a result record or an error record.
C10_ExactlyOneRecord ==
    \A f \in Fires :
      fire[f].pc \in {"done", "crashed"} => Cardinality(fire[f].wrote) = 1

\* C11: log records are never overwritten: every record a fire has written
\* is still in .cron_logs, also when two fires end within the same second.
C11_RecordsKept ==
    \A f \in Fires : \A k \in fire[f].wrote :
      \E x \in files : x.by = f /\ x.kind = k /\ x.whole

\* The Executions of job j: the times the scheduler has called
\* _run_scheduled_task for it.
Executions(j) == Cardinality({f \in Fires : fire[f].job = j})

\* C12: a scheduled run neither touches the interactive Agent's state (its
\* message list, the Turns, what the connections received, the broadcast
\* queue, the registry) nor waits for an interactive Turn: its agent.chat
\* can proceed while a Turn is running.
C12_ScheduledIsolated ==
    [][ /\ ((fire' # fire \/ files' # files) =>
              /\ messages' = messages
              /\ agentMade' = agentMade
              /\ turn' = turn
              /\ rec' = rec
              /\ loopQ' = loopQ
              /\ ws_clients' = ws_clients)
        /\ \A f \in Fires : fire[f].pc = "chat" => ENABLED RunChat(f) ]_vars

\* A scheduled run has completed with its own two messages while the
\* interactive Turn was running, and the interactive messages are as before.
C12_Witness ==
    \E f \in Fires :
      /\ fire[f].pc = "done"
      /\ fire[f].msgs = 2
      /\ turn[1].st = "running"
      /\ Len(messages) = 1

C14_PausedNeverRuns ==
    \A j \in JobIds :
      jobs[j].paused => next[j] = NoTimer /\ Executions(j) = 0

\* The scheduler runs with a paused job whose cron expression is missing in
\* the store, and another job has had an Execution a second or more later.
C14_Witness ==
    \E j, k \in JobIds :
      /\ jobs[j].paused
      /\ jobs[j].cron = "missing"
      /\ spc = "started"
      /\ now > loadedAt
      /\ Executions(k) > 0

\* C15: an unpaused cron job with a malformed expression gets no timer and
\* does not keep the scheduler from starting: _start_scheduler does not fail.
C15_MalformedCronSkipped ==
    \A j \in JobIds :
      (jobs[j].type = "cron" /\ ~jobs[j].paused /\ jobs[j].cron # "ok")
        => next[j] = NoTimer /\ spc # "failed"

\* C16: a history request that follows a reset, with no chat request
\* received in between, returns an empty message list.
C16_ResetThenHistoryEmpty ==
    (hist.seen /\ hist.cleared) => hist.empty

\* The in-flight Turn of connection c, if it has one.
InFlight(c) ==
    { t \in Turns : turn[t].init = c /\ turn[t].st \in {"queued", "running"} }

\* C17: closing a connection whose Turn is in flight does not abort the
\* Turn.  The close changes no Turn and no message; the agent.chat call of a
\* closed connection can still start and return; and when it has returned,
\* the step that finds the socket closed delivers nothing, keeps the
\* messages and leaves the call returned.
C17_CloseKeepsTurn ==
    [][ /\ \A c \in Conns :
             (hpc[c] = "await" /\ copen[c] /\ ~copen'[c] /\ inputs' # inputs)
               => turn' = turn /\ messages' = messages
        /\ \A c \in Conns : \A t \in InFlight(c) :
             ~copen[c] =>
               /\ turn[t].st = "queued" => ENABLED ChatStart(t)
               /\ (turn[t].st = "running" /\ turn[t].pc = "chat")
                    => ENABLED ChatReturn(t)
        /\ \A t \in Turns :
             (turn[t].reply # "undeliverable"
                /\ turn'[t].reply = "undeliverable")
               => /\ turn[t].st = "returned"
                  /\ turn'[t].st = "returned"
                  /\ messages' = messages
                  /\ rec' = rec ]_vars

\* A connection was closed while its Turn was in flight; the call returned,
\* its reply is in the message list and was not delivered.
C17_Witness ==
    \E t \in Turns :
      /\ turn[t].reply = "undeliverable"
      /\ turn[t].st = "returned"
      /\ [role |-> "assistant", turn |-> t] \in Range(messages)
      /\ \A i \in 1..Len(rec[turn[t].init]) :
           ~(rec[turn[t].init][i].type = "response"
               /\ rec[turn[t].init][i].turn = t)

\* C18: any two broadcast events that two connections both received were
\* received by both in the same order.
C18_SameOrder ==
    \A c, d \in Conns :
      \A i, j \in 1..Len(rec[c]) : \A k, l \in 1..Len(rec[d]) :
        ( /\ i < j
          /\ rec[c][i].type = "tool_call"
          /\ rec[c][j].type = "tool_call"
          /\ rec[d][k] = rec[c][i]
          /\ rec[d][l] = rec[c][j] )
          => k < l

\* C19: a reset (POST /api/reset or a ws 'reset') and a history read are
\* applied only while no agent.chat call is running on a worker thread.
C19_SingleWriter ==
    [][ (HttpReset \/ HttpHistory \/ \E c \in Conns : WsReset(c))
          => \A t \in Turns : turn[t].st # "running" ]_vars

\* C20: the event loop appends to or removes from _ws_clients only while no
\* _broadcast is iterating over it or removing from it.
C20_RegistryExclusive ==
    [][ (\E c \in Conns : hpc'[c] # hpc[c] /\ ws_clients' # ws_clients)
          => \A t \in Turns : turn[t].pc \notin {"iter", "cleanup"} ]_vars

\* A step of a worker thread: agent.chat and the _broadcast it calls.
WorkerStep ==
    \E t \in Turns :
      \/ ChatStart(t)
      \/ ChatToolCall(t)
      \/ ChatReturn(t)
      \/ ChatRaise(t)
      \/ BroadcastIter(t)
      \/ BroadcastRemove(t)

\* C21: no step of a worker thread writes to a socket; a worker hands each
\* event to the loop's queue, and what a socket receives is what the step
\* of the loop at the head of that queue, or a handler on the loop, wrote.
C21_LoopWritesOnly ==
    [][ /\ WorkerStep => rec' = rec
        /\ \A t \in Turns :
             (BroadcastIter(t) /\ turn[t].idx <= Len(ws_clients)
                /\ loopRef = "loop")
               => /\ Len(loopQ') = Len(loopQ) + 1
                  /\ loopQ'[Len(loopQ')].kind = "send"
                  /\ loopQ'[Len(loopQ')].conn = ws_clients[turn[t].idx] ]_vars

\* A connection has received a tool_call event of a Turn that is still
\* running on its worker thread.
C21_Witness ==
    \E c \in Conns : \E i \in 1..Len(rec[c]) :
      /\ rec[c][i].type = "tool_call"
      /\ turn[rec[c][i].turn].st = "running"

\* C22: the result of every tool_call message is the first min(len, 2000)
\* characters of the tool result, and no text field (result, content) of any
\* message built for _broadcast is longer than the cap.
C22_PayloadCapped ==
    \A i \in 1..Len(sent) :
      /\ sent[i].type = "tool_call"
           => sent[i].result = Slice(sent[i].given, ResultCap)
      /\ sent[i].result <= ResultCap
      /\ sent[i].content <= ResultCap

\* The types of all messages written to the sockets so far.
WireTypes ==
    UNION { { rec[c][i].type : i \in 1..Len(rec[c]) } : c \in Conns }

\* C23 as stated: every message written to a /ws socket has a type in
\* {thinking, tool_call, response, reset_ack}.
C23_TypesWithResetAck ==
    WireTypes \subseteq {"thinking", "tool_call", "response", "reset_ack"}

\* C23 amended: every message written to a /ws socket has a type in
\* {thinking, tool_call, message, response, reset_ok}, and a 'reset' request
\* is answered on its socket with reset_ok.
C23_TypesWithResetOk ==
    [][ /\ UNION { { rec'[c][i].type : i \in 1..Len(rec'[c]) } : c \in Conns }
             \subseteq {"thinking", "tool_call", "message", "response",
                        "reset_ok"}
        /\ \A c \in Conns :
             WsReset(c) => /\ Len(rec'[c]) = Len(rec[c]) + 1
                           /\ rec'[c][Len(rec'[c])].type = "reset_ok" ]_vars

\* The sockets have been sent a reset_ok and a message event.
C23_Witness ==
    {"reset_ok", "message"} \subseteq WireTypes

\* C24: whenever _resolve returns a location, it is the workspace root or
\* lies beneath it.
C24_ResolveConfined ==
    (resolved.applied /\ resolved.ok) => InWorkspace(resolved.loc)

\* The call names a known action and a path, or a destination, outside the
\* workspace.
EscapeTried(a) ==
    /\ a.action \in Actions \ {"other"}
    /\ \/ ~InWorkspace(ResolvePath(a.path).loc)
       \/ /\ a.action \in {"move", "copy"}
          /\ ~InWorkspace(ResolvePath(a.destination).loc)

ErrorTexts == {"required", "permission", "not_found", "file_not_found",
               "error", "unknown", "refused"}

\* C25: execute never raises; a call with a path outside the workspace
\* returns an error text; and a call rejected with a permission error leaves
\* the file system as it was (but for the workspace directory itself, which
\* every use of the tool creates when it is missing).
C25_ExecuteContained ==
    out.applied =>
      /\ ~out.raised
      /\ EscapeTried(args) => out.text \in ErrorTexts
      /\ out.text = "permission" => disk = WithWorkspace(out.before)

\* C26: the interactive Agent is constructed at most once, and once a
\* handler that calls _get_agent has run (a chat, a reset or a history
\* request) there is exactly that one Agent.
C26_OneAgent ==
    /\ agentMade <= 1
    /\ (nextTurn > 1 \/ cleared \/ hist.seen) => agentMade = 1

\* Two chat requests are in flight at once, a reset and a history request
\* have been handled beside them, and there is one Agent.
C26_Witness ==
    /\ agentMade = 1
    /\ Cardinality({t \in Turns : turn[t].st \in {"queued", "running"}}) = 2
    /\ cleared
    /\ hist.seen

\* C27: fetch_models stores only a non-empty list that a live fetch has
\* just returned, never a fallback; a call made less than 600 seconds after
\* the provider's entry was stored returns the stored list and fetches
\* nothing; a call made more than 600 seconds after it fetches again; and
\* a live fetch that fails returns the provider's fallback list and raises
\* nothing.
C27_FetchModelsCache ==
    /\ \A p \in Providers :
          cache[p].has => cache[p].list.src = "live" /\ cache[p].ts <= mono
    /\ ret.applied =>
          /\ cache[ret.provider] # ret.before =>
                /\ ret.fetch = "list"
                /\ cache[ret.provider].list = ret.list
          /\ (ret.before.has /\ ret.at - ret.before.ts < CACHE_TTL) =>
                /\ ret.fetch = "none"
                /\ ~ret.raised
                /\ ret.list = ret.before.list
          /\ (ret.before.has /\ ret.at - ret.before.ts > CACHE_TTL) =>
                ret.fetch # "none"
          /\ ret.fetch \in {"caught", "uncaught"} =>
                /\ ~ret.raised
                /\ ret.list = Fallback(ret.provider)
====
